---- MODULE Spec2Model ----
(***************************************************************************)
(* Model of bevy_ecs_ldtk's src/app.rs: the LdtkEntity / LdtkIntCell       *)
(* factory traits, their type-erasing Phantom wrappers, the two registries *)
(* (LdtkEntityMap, LdtkIntCellMap) kept as non-send resources of the App,  *)
(* the RegisterLdtkObjects implementation for App, and the spawn-time      *)
(* consumer described in section 4.5 of the specification.                 *)
(***************************************************************************)
EXTENDS Integers, Sequences, FiniteSets, TLC

VARIABLES
    entityMap,        \* Option<LdtkEntityMap>: the non-send resource, <<>> when absent
    intCellMap,       \* Option<LdtkIntCellMap>: the non-send resource, <<>> when absent
    tilesetMap,       \* the TilesetMap supplied to the level load
    materials,        \* Assets<ColorMaterial>: the materials added so far, in order
    textureAtlases,   \* Assets<TextureAtlas>
    world,            \* the entities spawned by the level load, in order
    warnings,         \* the warn!() lines emitted so far
    panicked,         \* TRUE once the process has aborted with a panic
    running,          \* FALSE during App setup, TRUE once the App runs
    histE,            \* history: last bundle type registered for each identifier
    histI,            \* history: last bundle type registered for each int value
    lastCall          \* history: the latest registration call and the registry before it

vars == <<entityMap, intCellMap, tilesetMap, materials, textureAtlases,
          world, warnings, panicked, running, histE, histI, lastCall>>

-----------------------------------------------------------------------------
(* Bounds and the finite input sets                                        *)

MaxSpawned == 2

Identifiers == {"gem", "crate"}
TilesetUids == {1, 2}
IntValues == {1, 2, 5}
EntityTypes == {"SpriteBundle", "NickelBundle"}
IntCellTypes == {"Wall", "Lava"}
NoType == "none"

\* No registration call has been made since the App was built or run
NoCall == [op |-> "none"]

\* Option<T>
None == <<>>
Some(x) == <<x>>
IsSome(o) == o # <<>>
Unwrap(o) == o[1]

\* Option<EntityInstanceTile>, of which the code reads tileset_uid only
Tiles == {None} \cup {Some([tileset_uid |-> u]) : u \in TilesetUids}

EntityInstance == [identifier : Identifiers, tile : Tiles]

IntGridCell == [value : IntValues]

\* The tileset map of the level load: uid 1 is a key, uid 2 is not
TilesetMaps == {<<"tex1">>}

EmptyMap == <<>>

-----------------------------------------------------------------------------
(* HashMap and Assets                                                      *)

HashMapInsert(m, k, v) ==
    [x \in (DOMAIN m) \cup {k} |-> IF x = k THEN v ELSE m[x]]

HashMapGet(m, k) == IF k \in DOMAIN m THEN Some(m[k]) ELSE None

\* Assets::add stores the asset and returns a handle to it
AssetsAdd(assets, asset) ==
    [assets |-> Append(assets, asset), handle |-> Len(assets) + 1]

DefaultHandle == 0

-----------------------------------------------------------------------------
(* Bundles: a bundle is a function from component names to values          *)

SpriteBundleDefault ==
    [Sprite |-> "default", Mesh |-> "quad", Material |-> DefaultHandle,
     MainPass |-> "default", Draw |-> "default", Visible |-> "default",
     RenderPipelines |-> "sprite", Transform |-> "identity",
     GlobalTransform |-> "identity"]

\* insert_bundle: every component of the bundle is set on the entity
Merge(bundle, comps) ==
    [c \in (DOMAIN bundle) \cup (DOMAIN comps) |->
        IF c \in DOMAIN bundle THEN bundle[c] ELSE comps[c]]

-----------------------------------------------------------------------------
(* LdtkEntity::bundle_entity                                               *)

\* What a constructor call leaves behind: the bundle it returns, the asset
\* stores after the call, the warn!() lines it emitted, whether it panicked.
Built(bundle, mats, atlases, warned, panic) ==
    [bundle |-> bundle, materials |-> mats, texture_atlases |-> atlases,
     warned |-> warned, panic |-> panic]

WarnNoTile == "expected the EntityInstance to have a tile defined"
WarnNoTileset == "EntityInstance's tileset should be in the TilesetMap"

\* Variant: entity_instance.tile is unwrapped, which panics on None
SpriteNoTile_unwrap(mats, atlases) ==
    Built(SpriteBundleDefault, mats, atlases, <<>>, TRUE)

\* entity_instance.tile is None: warn and return SpriteBundle::default()
SpriteNoTile(mats, atlases) ==
    Built(SpriteBundleDefault, mats, atlases, <<WarnNoTile>>, FALSE)

\* Variant: the tileset map is indexed, which panics on a missing key
SpriteNoTileset_index(mats, atlases) ==
    Built(SpriteBundleDefault, mats, atlases, <<>>, TRUE)

\* tileset_map.get(&tile.tileset_uid) is None: warn and return the default
SpriteNoTileset(mats, atlases) ==
    Built(SpriteBundleDefault, mats, atlases, <<WarnNoTileset>>, FALSE)

\* Variant: the material is added but left out of the returned bundle
SpriteFromTileset_default(tileset, mats, atlases) ==
    LET added == AssetsAdd(mats, [texture |-> tileset])
    IN  Built(SpriteBundleDefault, added.assets, atlases, <<>>, FALSE)

\* The tile resolves: add a material made from the tileset, refer to it
SpriteFromTileset(tileset, mats, atlases) ==
    LET added == AssetsAdd(mats, [texture |-> tileset])
    IN  Built([SpriteBundleDefault EXCEPT !.Material = added.handle],
              added.assets, atlases, <<>>, FALSE)

\* impl LdtkEntity for SpriteBundle
SpriteBundle_bundle_entity(entity_instance, tileset_map, mats, atlases) ==
    IF ~IsSome(entity_instance.tile)
    THEN SpriteNoTile(mats, atlases)
    ELSE LET tile == Unwrap(entity_instance.tile)
             found == HashMapGet(tileset_map, tile.tileset_uid)
         IN  IF ~IsSome(found)
             THEN SpriteNoTileset(mats, atlases)
             ELSE SpriteFromTileset(Unwrap(found), mats, atlases)

\* impl From<EntityInstance> for Sellable
SellableFrom(entity_instance) ==
    [value |-> CASE entity_instance.identifier = "gem" -> 1000
                 [] entity_instance.identifier = "nickel" -> 5
                 [] OTHER -> 10]

\* #[derive(LdtkEntity)] struct NickelBundle { #[sprite_bundle] sprite,
\* #[from_entity_instance] sellable, #[from_entity_instance] entity_instance }
NickelBundle_bundle_entity(entity_instance, tileset_map, mats, atlases) ==
    LET sprite == SpriteBundle_bundle_entity(entity_instance, tileset_map,
                                             mats, atlases)
    IN  [sprite EXCEPT !.bundle =
            Merge([Sellable |-> SellableFrom(entity_instance),
                   EntityInstance |-> entity_instance], sprite.bundle)]

\* B::bundle_entity, by the bundle type B
bundle_entity(B, entity_instance, tileset_map, mats, atlases) ==
    CASE B = "SpriteBundle" ->
            SpriteBundle_bundle_entity(entity_instance, tileset_map, mats, atlases)
      [] B = "NickelBundle" ->
            NickelBundle_bundle_entity(entity_instance, tileset_map, mats, atlases)

-----------------------------------------------------------------------------
(* LdtkIntCell::bundle_int_cell                                            *)

\* #[derive(LdtkIntCell)] struct Wall { rigid_body }
Wall_bundle_int_cell(int_grid_cell) == [RigidBody |-> "default"]

\* impl From<IntGridCell> for Fluid
FluidFrom(int_grid_cell) ==
    [viscosity |-> CASE int_grid_cell.value = 1 -> 5
                     [] int_grid_cell.value = 2 -> 20
                     [] OTHER -> 0]

\* #[derive(LdtkIntCell)] struct Lava { #[from_int_grid_cell] fluid,
\* #[from_int_grid_cell] int_grid_cell, damage }
Lava_bundle_int_cell(int_grid_cell) ==
    [Fluid |-> FluidFrom(int_grid_cell), IntGridCell |-> int_grid_cell,
     Damage |-> "default"]

\* B::bundle_int_cell, by the bundle type B
bundle_int_cell(B, int_grid_cell) ==
    CASE B = "Wall" -> Wall_bundle_int_cell(int_grid_cell)
      [] B = "Lava" -> Lava_bundle_int_cell(int_grid_cell)

-----------------------------------------------------------------------------
(* EntityCommands and the type-erasing wrappers                            *)

\* The command sink of a freshly spawned entity
NewEntityCommands == [comps |-> <<>>, inserts |-> <<>>]

\* EntityCommands::insert_bundle: one attachment, which sets (overwrites)
\* every component of the bundle on the entity
insert_bundle(entity_commands, bundle) ==
    [comps |-> Merge(bundle, entity_commands.comps),
     inserts |-> Append(entity_commands.inserts, bundle)]

\* PhantomLdtkEntity::<B> { ldtk_entity: PhantomData }
PhantomLdtkEntity(B) == [ldtk_entity |-> B]

\* PhantomLdtkIntCell::<B> { ldtk_int_cell: PhantomData }
PhantomLdtkIntCell(B) == [ldtk_int_cell |-> B]

\* Variant: the bundle is built but never inserted
PhantomLdtkEntity_evaluate_discard(self, entity_commands, entity_instance, tileset_map, mats, atlases) ==
    LET built == bundle_entity(self.ldtk_entity, entity_instance,
                               tileset_map, mats, atlases)
    IN  [commands |-> entity_commands,
         materials |-> built.materials,
         texture_atlases |-> built.texture_atlases,
         warned |-> built.warned, panic |-> built.panic]

\* <PhantomLdtkEntity<B> as PhantomLdtkEntityTrait>::evaluate
PhantomLdtkEntity_evaluate(self, entity_commands, entity_instance, tileset_map, mats, atlases) ==
    LET built == bundle_entity(self.ldtk_entity, entity_instance,
                               tileset_map, mats, atlases)
    IN  [commands |-> insert_bundle(entity_commands, built.bundle),
         materials |-> built.materials,
         texture_atlases |-> built.texture_atlases,
         warned |-> built.warned, panic |-> built.panic]

\* Variant: the bundle is built from IntGridCell::default(), not the cell
PhantomLdtkIntCell_evaluate_default(self, entity_commands, int_grid_cell) ==
    insert_bundle(entity_commands,
                  bundle_int_cell(self.ldtk_int_cell, [value |-> 0]))

\* <PhantomLdtkIntCell<B> as PhantomLdtkIntCellTrait>::evaluate
PhantomLdtkIntCell_evaluate(self, entity_commands, int_grid_cell) ==
    insert_bundle(entity_commands,
                  bundle_int_cell(self.ldtk_int_cell, int_grid_cell))

-----------------------------------------------------------------------------
(* RegisterLdtkObjects for App                                             *)

\* Variant: entry(identifier).or_insert(new_entry), the first entry stays
register_ldtk_entity_or_insert(resource, identifier, B) ==
    LET new_entry == PhantomLdtkEntity(B)
    IN  IF IsSome(resource)
        THEN IF identifier \in DOMAIN Unwrap(resource)
             THEN resource
             ELSE Some(HashMapInsert(Unwrap(resource), identifier, new_entry))
        ELSE Some(HashMapInsert(EmptyMap, identifier, new_entry))

\* Variant: the None arm inserts the new map without the entry
register_ldtk_entity_empty_first(resource, identifier, B) ==
    LET new_entry == PhantomLdtkEntity(B)
    IN  IF IsSome(resource)
        THEN Some(HashMapInsert(Unwrap(resource), identifier, new_entry))
        ELSE Some(EmptyMap)

\* register_ldtk_entity::<B>(identifier), as a function of the resource
register_ldtk_entity(resource, identifier, B) ==
    LET new_entry == PhantomLdtkEntity(B)
    IN  IF IsSome(resource)
        THEN Some(HashMapInsert(Unwrap(resource), identifier, new_entry))
        ELSE Some(HashMapInsert(EmptyMap, identifier, new_entry))

\* Variant: the None arm inserts the new map without the entry
register_ldtk_int_cell_empty_first(resource, value, B) ==
    LET new_entry == PhantomLdtkIntCell(B)
    IN  IF IsSome(resource)
        THEN Some(HashMapInsert(Unwrap(resource), value, new_entry))
        ELSE Some(EmptyMap)

\* Variant: both arms build a new map, which replaces the resource
register_ldtk_int_cell_new_map(resource, value, B) ==
    LET new_entry == PhantomLdtkIntCell(B)
    IN  Some(HashMapInsert(EmptyMap, value, new_entry))

\* register_ldtk_int_cell::<B>(value), as a function of the resource
register_ldtk_int_cell(resource, value, B) ==
    LET new_entry == PhantomLdtkIntCell(B)
    IN  IF IsSome(resource)
        THEN Some(HashMapInsert(Unwrap(resource), value, new_entry))
        ELSE Some(HashMapInsert(EmptyMap, value, new_entry))

\* The latest registration call was op::<B>(key)
IsCall(op, key, B) ==
    /\ lastCall.op = op
    /\ lastCall.B = B
    /\ lastCall.key = key

\* app.register_ldtk_entity::<B>(identifier)
RegisterEntity(identifier, B) ==
    /\ ~running
    /\ entityMap' = register_ldtk_entity(entityMap, identifier, B)
    /\ histE' = [histE EXCEPT ![identifier] = B]
    /\ lastCall' = [op |-> "register_ldtk_entity", key |-> identifier,
                    B |-> B, before |-> entityMap,
                    repeat |-> IsCall("register_ldtk_entity", identifier, B)]
    /\ UNCHANGED <<intCellMap, tilesetMap, materials, textureAtlases,
                   world, warnings, panicked, running, histI>>

\* app.register_ldtk_int_cell::<B>(value)
RegisterIntCell(value, B) ==
    /\ ~running
    /\ intCellMap' = register_ldtk_int_cell(intCellMap, value, B)
    /\ histI' = [histI EXCEPT ![value] = B]
    /\ lastCall' = [op |-> "register_ldtk_int_cell", key |-> value,
                    B |-> B, before |-> intCellMap,
                    repeat |-> IsCall("register_ldtk_int_cell", value, B)]
    /\ UNCHANGED <<entityMap, tilesetMap, materials, textureAtlases,
                   world, warnings, panicked, running, histE>>

-----------------------------------------------------------------------------
(* The spawn-time consumer (specification, section 4.5)                    *)

\* The spatial-placement and hierarchy-parent components the consumer sets
FixedBundle ==
    [Transform |-> "level", GlobalTransform |-> "level", Parent |-> "layer"]

\* The TileBundle the consumer inserts on an IntGrid tile before the bundle
TileBundle == [Tile |-> "tile", TileParent |-> "layer", TilePos |-> "pos"]

\* Lookup of a key in a registry resource that may not exist yet
Lookup(resource, key) ==
    IF IsSome(resource) THEN HashMapGet(Unwrap(resource), key) ELSE None

\* The outcome of a dispatch, with the factory that was invoked
Dispatched(done, hit) ==
    [commands |-> done.commands, materials |-> done.materials,
     texture_atlases |-> done.texture_atlases, warned |-> done.warned,
     panic |-> done.panic,
     factory |-> IF IsSome(hit) THEN Unwrap(hit).ldtk_entity ELSE NoType]

\* Variant: a miss attaches nothing but the fixed components
DispatchEntity_no_fallback(registry, entity_instance, tileset_map, mats, atlases) ==
    LET hit == Lookup(registry, entity_instance.identifier)
        done == IF IsSome(hit)
                THEN PhantomLdtkEntity_evaluate(Unwrap(hit), NewEntityCommands,
                         entity_instance, tileset_map, mats, atlases)
                ELSE [commands |-> NewEntityCommands,
                      materials |-> mats, texture_atlases |-> atlases,
                      warned |-> <<>>, panic |-> FALSE]
    IN  Dispatched([done EXCEPT !.commands = insert_bundle(@, FixedBundle)], hit)

\* Variant: the fixed components are attached first, the bundle after them
DispatchEntity_fixed_first(registry, entity_instance, tileset_map, mats, atlases) ==
    LET hit == Lookup(registry, entity_instance.identifier)
        first == insert_bundle(NewEntityCommands, FixedBundle)
        done == IF IsSome(hit)
                THEN PhantomLdtkEntity_evaluate(Unwrap(hit), first,
                         entity_instance, tileset_map, mats, atlases)
                ELSE [commands |-> insert_bundle(first,
                                     [EntityInstance |-> entity_instance]),
                      materials |-> mats, texture_atlases |-> atlases,
                      warned |-> <<>>, panic |-> FALSE]
    IN  Dispatched(done, hit)

\* Hit: the wrapper attaches its bundle. Miss: the raw EntityInstance.
DispatchEntity(registry, entity_instance, tileset_map, mats, atlases) ==
    LET hit == Lookup(registry, entity_instance.identifier)
        done == IF IsSome(hit)
                THEN PhantomLdtkEntity_evaluate(Unwrap(hit), NewEntityCommands,
                         entity_instance, tileset_map, mats, atlases)
                ELSE [commands |-> insert_bundle(NewEntityCommands,
                                     [EntityInstance |-> entity_instance]),
                      materials |-> mats, texture_atlases |-> atlases,
                      warned |-> <<>>, panic |-> FALSE]
    IN  Dispatched([done EXCEPT !.commands = insert_bundle(@, FixedBundle)], hit)

\* Hit: the wrapper attaches its bundle. Miss: the raw IntGridCell.
DispatchIntCell(registry, int_grid_cell) ==
    LET hit == Lookup(registry, int_grid_cell.value)
        tile == insert_bundle(NewEntityCommands, TileBundle)
        done == IF IsSome(hit)
                THEN PhantomLdtkIntCell_evaluate(Unwrap(hit), tile, int_grid_cell)
                ELSE insert_bundle(tile, [IntGridCell |-> int_grid_cell])
    IN  [commands |-> insert_bundle(done, FixedBundle),
         factory |-> IF IsSome(hit) THEN Unwrap(hit).ldtk_int_cell ELSE NoType]

\* app.run(): setup is over, registration calls can no longer be made
Run ==
    /\ ~running
    /\ running' = TRUE
    /\ lastCall' = NoCall
    /\ UNCHANGED <<entityMap, intCellMap, tilesetMap, materials,
                   textureAtlases, world, warnings, panicked, histE, histI>>

\* The level load meets one entity record
SpawnEntity(entity_instance) ==
    /\ running
    /\ ~panicked
    /\ Len(world) < MaxSpawned
    /\ LET d == DispatchEntity(entityMap, entity_instance, tilesetMap,
                               materials, textureAtlases)
       IN  /\ world' = Append(world,
                  [kind |-> "entity", input |-> entity_instance,
                   comps |-> d.commands.comps, inserts |-> d.commands.inserts,
                   factory |-> d.factory,
                   registered |-> histE[entity_instance.identifier],
                   before |-> [materials |-> materials,
                               texture_atlases |-> textureAtlases],
                   after |-> [materials |-> d.materials,
                              texture_atlases |-> d.texture_atlases]])
           /\ materials' = d.materials
           /\ textureAtlases' = d.texture_atlases
           /\ warnings' = warnings \o d.warned
           /\ panicked' = d.panic
    /\ UNCHANGED <<entityMap, intCellMap, tilesetMap, running, histE, histI,
                   lastCall>>

\* The level load meets one IntGrid cell
SpawnIntCell(int_grid_cell) ==
    /\ running
    /\ ~panicked
    /\ Len(world) < MaxSpawned
    /\ LET d == DispatchIntCell(intCellMap, int_grid_cell)
       IN  world' = Append(world,
                  [kind |-> "cell", input |-> int_grid_cell,
                   comps |-> d.commands.comps, inserts |-> d.commands.inserts,
                   factory |-> d.factory,
                   registered |-> histI[int_grid_cell.value],
                   before |-> [materials |-> materials,
                               texture_atlases |-> textureAtlases],
                   after |-> [materials |-> materials,
                              texture_atlases |-> textureAtlases]])
    /\ UNCHANGED <<entityMap, intCellMap, tilesetMap, materials,
                   textureAtlases, warnings, panicked, running, histE, histI,
                   lastCall>>

-----------------------------------------------------------------------------
(* The specification                                                       *)

Init ==
    /\ entityMap = None
    /\ intCellMap = None
    /\ tilesetMap \in TilesetMaps
    /\ materials = <<[texture |-> "tex0"]>>
    /\ textureAtlases = <<>>
    /\ world = <<>>
    /\ warnings = <<>>
    /\ panicked = FALSE
    /\ histE = [id \in Identifiers |-> NoType]
    /\ histI = [v \in IntValues |-> NoType]
    /\ running = FALSE
    /\ lastCall = NoCall

Next ==
    \/ \E id \in Identifiers, B \in EntityTypes : RegisterEntity(id, B)
    \/ \E v \in IntValues, B \in IntCellTypes : RegisterIntCell(v, B)
    \/ Run
    \/ \E e \in EntityInstance : SpawnEntity(e)
    \/ \E c \in IntGridCell : SpawnIntCell(c)

Spec == Init /\ [][Next]_vars

TypeOK ==
    /\ panicked \in BOOLEAN
    /\ running \in BOOLEAN
    /\ Len(world) <= MaxSpawned
    /\ histE \in [Identifiers -> EntityTypes \cup {NoType}]
    /\ histI \in [IntValues -> IntCellTypes \cup {NoType}]

-----------------------------------------------------------------------------
(* Properties                                                              *)

Keys(resource) == IF IsSome(resource) THEN DOMAIN Unwrap(resource) ELSE {}

RegisteredIdentifiers == {id \in Identifiers : histE[id] # NoType}
RegisteredValues == {v \in IntValues : histI[v] # NoType}

Spawned == {world[i] : i \in 1..Len(world)}
SpawnedEntities == {e \in Spawned : e.kind = "entity"}
SpawnedCells == {e \in Spawned : e.kind = "cell"}

\* Every tileset map over the uids, whether or not a load is given it
AllTilesetMaps == {<<>>, <<"tex1">>, <<"tex1", "tex2">>, [u \in {2} |-> "tex2"]}

\* Material stores the factory may be handed: empty, one and two materials
AllMaterialStores ==
    {<<>>, <<[texture |-> "tex0"]>>, <<[texture |-> "tex0"], [texture |-> "tex1"]>>}

\* The bundle B::bundle_entity returns for a spawned entity's inputs
DirectBuild(B, e) ==
    bundle_entity(B, e.input, tilesetMap, e.before.materials,
                  e.before.texture_atlases)

\* C1: for an identifier registered with type R (whatever was registered for
\* other identifiers afterwards) the registry holds a wrapper whose evaluate
\* makes exactly one attachment, of exactly the bundle R::bundle_entity
\* returns for the same record, tileset map and asset stores, and leaves the
\* stores as R::bundle_entity leaves them: after every registration call for
\* every record, and for every entity the load has spawned.
C1_WrapperEquivalence ==
    /\ \A id \in RegisteredIdentifiers :
        LET found == Lookup(entityMap, id)
        IN  /\ IsSome(found)
            /\ \A inst \in EntityInstance :
                running \/
                LET direct == bundle_entity(histE[id], inst, tilesetMap,
                                            materials, textureAtlases)
                    ev == PhantomLdtkEntity_evaluate(Unwrap(found),
                              NewEntityCommands, inst, tilesetMap,
                              materials, textureAtlases)
                IN  /\ ev.commands.inserts = <<direct.bundle>>
                    /\ ev.commands.comps = direct.bundle
                    /\ ev.materials = direct.materials
                    /\ ev.texture_atlases = direct.texture_atlases
    /\ \A e \in SpawnedEntities :
        e.registered # NoType =>
            LET direct == DirectBuild(e.registered, e)
            IN  /\ e.factory = e.registered
                /\ SubSeq(e.inserts, 1, Len(e.inserts) - 1) = <<direct.bundle>>
                /\ DOMAIN e.comps = (DOMAIN direct.bundle) \cup (DOMAIN FixedBundle)
                /\ \A c \in (DOMAIN direct.bundle) \ (DOMAIN FixedBundle) :
                        e.comps[c] = direct.bundle[c]
                /\ e.after.materials = direct.materials
                /\ e.after.texture_atlases = direct.texture_atlases

\* An entity built by the NickelBundle factory from a resolving tile, while
\* the other identifier is registered with a different type
C1_Witness ==
    \E e \in SpawnedEntities :
        /\ e.factory = "NickelBundle"
        /\ e.comps["Material"] # DefaultHandle
        /\ \E id \in RegisteredIdentifiers :
            id # e.input.identifier /\ histE[id] # "NickelBundle"

\* C2: an entity record whose identifier was never registered gets the raw
\* EntityInstance component and the fixed spatial/hierarchy components and
\* nothing else; no factory is invoked and the asset stores are untouched.
C2_UnregisteredFallback ==
    \A e \in SpawnedEntities :
        e.registered = NoType =>
            /\ e.factory = NoType
            /\ e.inserts = <<[EntityInstance |-> e.input], FixedBundle>>
            /\ e.comps = [EntityInstance |-> e.input, Transform |-> "level",
                          GlobalTransform |-> "level", Parent |-> "layer"]
            /\ e.after = e.before

\* A fallback entity in an App where the other identifier is registered
C2_Witness ==
    \E e \in SpawnedEntities :
        /\ e.registered = NoType
        /\ "EntityInstance" \in DOMAIN e.comps
        /\ RegisteredIdentifiers # {}

\* C3: registering a key that is registered with a different type leaves the
\* second registration's wrapper under the key, does not change the number
\* of keys, and does not panic; in both registries.
C3_LastWriteWins ==
    [][ /\ \A id \in Identifiers, B \in EntityTypes :
            (RegisterEntity(id, B) /\ histE[id] \notin {NoType, B}) =>
                /\ Lookup(entityMap', id) = Some(PhantomLdtkEntity(B))
                /\ Cardinality(Keys(entityMap')) = Cardinality(Keys(entityMap))
                /\ ~panicked'
        /\ \A v \in IntValues, B \in IntCellTypes :
            (RegisterIntCell(v, B) /\ histI[v] \notin {NoType, B}) =>
                /\ Lookup(intCellMap', v) = Some(PhantomLdtkIntCell(B))
                /\ Cardinality(Keys(intCellMap')) = Cardinality(Keys(intCellMap))
                /\ ~panicked'
      ]_vars

\* The latest call replaced an entry of another type under its identifier
C3_Witness ==
    /\ lastCall.op = "register_ldtk_entity"
    /\ IsSome(Lookup(lastCall.before, lastCall.key))
    /\ Lookup(lastCall.before, lastCall.key) # Some(PhantomLdtkEntity(lastCall.B))
    /\ Lookup(entityMap, lastCall.key) = Some(PhantomLdtkEntity(lastCall.B))

\* The bundle a spawned entity or cell was given before the fixed components
GivenBundle(e) ==
    IF e.kind = "entity"
    THEN IF e.factory # NoType THEN DirectBuild(e.factory, e).bundle
         ELSE [EntityInstance |-> e.input]
    ELSE IF e.factory # NoType THEN bundle_int_cell(e.factory, e.input)
         ELSE [IntGridCell |-> e.input]

\* C4: on the factory path and the fallback path alike, the fixed
\* spatial/hierarchy bundle is the last attachment, right after the factory's
\* bundle or the fallback, so the entity's final Transform, GlobalTransform
\* and Parent are the consumer's.
C4_FixedComponentsLast ==
    \A e \in Spawned :
        LET n == Len(e.inserts)
        IN  /\ n >= 2
            /\ e.inserts[n] = FixedBundle
            /\ e.inserts[n - 1] = GivenBundle(e)
            /\ \A c \in DOMAIN FixedBundle : e.comps[c] = FixedBundle[c]

\* A factory set its own Transform and the entity ends with the consumer's
C4_Witness ==
    \E e \in SpawnedEntities :
        /\ e.factory = "SpriteBundle"
        /\ e.inserts[1]["Transform"] = "identity"
        /\ e.comps["Transform"] = "level"

\* C5: SpriteBundle::bundle_entity on a record without a tile returns
\* SpriteBundle::default() and does not panic, for every tileset map and
\* material store (the function is applied to all of them while the App is
\* set up), and in every dispatch the load has made.
C5_NoTileDefault ==
    /\ ~panicked
    /\ running \/
        \A inst \in EntityInstance, tm \in AllTilesetMaps,
           mats \in AllMaterialStores \cup {materials} :
            ~IsSome(inst.tile) =>
                LET built == SpriteBundle_bundle_entity(inst, tm, mats,
                                                        textureAtlases)
                IN  built.bundle = SpriteBundleDefault /\ ~built.panic
    /\ \A e \in SpawnedEntities :
        (e.factory = "SpriteBundle" /\ ~IsSome(e.input.tile)) =>
            e.inserts[1] = SpriteBundleDefault

\* The SpriteBundle factory has run on a record without a tile
C5_Witness ==
    \E e \in SpawnedEntities :
        /\ e.factory = "SpriteBundle"
        /\ ~IsSome(e.input.tile)
        /\ e.comps["Material"] = DefaultHandle

\* C6: SpriteBundle::bundle_entity on a tile whose tileset_uid is not a key
\* of the tileset map returns SpriteBundle::default() and does not panic,
\* for every such tileset map and every material store (the function is
\* applied to all of them while the App is set up), and in every dispatch
\* the load has made.
C6_NoTilesetDefault ==
    /\ ~panicked
    /\ running \/
        \A inst \in EntityInstance, tm \in AllTilesetMaps,
           mats \in AllMaterialStores \cup {materials} :
            (IsSome(inst.tile) /\ Unwrap(inst.tile).tileset_uid \notin DOMAIN tm) =>
                LET built == SpriteBundle_bundle_entity(inst, tm, mats,
                                                        textureAtlases)
                IN  built.bundle = SpriteBundleDefault /\ ~built.panic
    /\ \A e \in SpawnedEntities :
        (/\ e.factory = "SpriteBundle"
         /\ IsSome(e.input.tile)
         /\ Unwrap(e.input.tile).tileset_uid \notin DOMAIN tilesetMap) =>
            e.inserts[1] = SpriteBundleDefault

\* The SpriteBundle factory has run on a tile of an unknown tileset
C6_Witness ==
    \E e \in SpawnedEntities :
        /\ e.factory = "SpriteBundle"
        /\ IsSome(e.input.tile)
        /\ Unwrap(e.input.tile).tileset_uid \notin DOMAIN tilesetMap
        /\ e.comps["Material"] = DefaultHandle

\* C7: a cell whose value is registered gets the bundle its key's factory
\* builds from that very cell; a cell whose value is not registered gets the
\* raw IntGridCell with its own value; and the registry is looked up by the
\* exact value.
C7_IntCellDispatch ==
    /\ \A v \in IntValues :
        Lookup(intCellMap, v) =
            IF histI[v] # NoType THEN Some(PhantomLdtkIntCell(histI[v]))
            ELSE None
    /\ \A e \in SpawnedCells :
        IF e.registered # NoType
        THEN /\ e.factory = e.registered
             /\ e.inserts = <<TileBundle, bundle_int_cell(e.registered, e.input),
                              FixedBundle>>
        ELSE /\ e.factory = NoType
             /\ e.inserts = <<TileBundle, [IntGridCell |-> e.input], FixedBundle>>
             /\ e.comps["IntGridCell"].value = e.input.value

\* A cell of value 2 built by the Lava factory next to a fallback cell
C7_Witness ==
    /\ \E e \in SpawnedCells :
        /\ e.input.value = 2
        /\ e.factory = "Lava"
        /\ e.comps["Fluid"].viscosity = 20
    /\ \E e \in SpawnedCells :
        /\ e.input.value # 2
        /\ e.factory = NoType
        /\ e.comps["IntGridCell"].value = e.input.value

\* C8: a registry exists exactly when a registration call was made on it,
\* the first call creates it with the one entry, its keys are always exactly
\* the keys registered so far, and no step removes a key.
C8_RegistryLifecycle ==
    /\ [](/\ IsSome(entityMap) <=> RegisteredIdentifiers # {}
          /\ IsSome(intCellMap) <=> RegisteredValues # {}
          /\ Keys(entityMap) = RegisteredIdentifiers
          /\ Keys(intCellMap) = RegisteredValues)
    /\ [][ /\ Keys(entityMap) \subseteq Keys(entityMap')
           /\ Keys(intCellMap) \subseteq Keys(intCellMap')
           /\ IsSome(entityMap) => IsSome(entityMap')
           /\ IsSome(intCellMap) => IsSome(intCellMap')
           /\ \A id \in Identifiers, B \in EntityTypes :
                (RegisterEntity(id, B) /\ ~IsSome(entityMap)) =>
                    /\ IsSome(entityMap')
                    /\ DOMAIN Unwrap(entityMap') = {id}
                    /\ Unwrap(entityMap')[id] = PhantomLdtkEntity(B)
           /\ \A v \in IntValues, B \in IntCellTypes :
                (RegisterIntCell(v, B) /\ ~IsSome(intCellMap)) =>
                    /\ IsSome(intCellMap')
                    /\ DOMAIN Unwrap(intCellMap') = {v}
                    /\ Unwrap(intCellMap')[v] = PhantomLdtkIntCell(B)
         ]_vars

\* The latest call created the int-cell registry, which holds its one entry
C8_Witness ==
    /\ lastCall.op = "register_ldtk_int_cell"
    /\ ~IsSome(lastCall.before)
    /\ Keys(intCellMap) = {lastCall.key}

\* C9: a registration call that repeats the call just before it, with the
\* same type and key, changes neither registry.
C9_Idempotent ==
    [][ /\ \A id \in Identifiers, B \in EntityTypes :
            (RegisterEntity(id, B) /\ IsCall("register_ldtk_entity", id, B)) =>
                entityMap' = entityMap /\ intCellMap' = intCellMap
        /\ \A v \in IntValues, B \in IntCellTypes :
            (RegisterIntCell(v, B) /\ IsCall("register_ldtk_int_cell", v, B)) =>
                entityMap' = entityMap /\ intCellMap' = intCellMap
      ]_vars

\* The same registration was just made twice in a row
C9_Witness ==
    /\ lastCall.op = "register_ldtk_entity"
    /\ lastCall.repeat
    /\ lastCall.before = entityMap

\* C10: a registration changes only the entry of its own key in its own
\* registry, and two registrations of distinct keys give the same registries
\* in either order (from every registry state of the setup, the only time
\* registration calls are made).
C10_FrameAndCommute ==
    /\ [][ /\ \A id \in Identifiers, B \in EntityTypes :
                RegisterEntity(id, B) =>
                    /\ intCellMap' = intCellMap
                    /\ \A o \in Identifiers \ {id} :
                            Lookup(entityMap', o) = Lookup(entityMap, o)
           /\ \A v \in IntValues, B \in IntCellTypes :
                RegisterIntCell(v, B) =>
                    /\ entityMap' = entityMap
                    /\ \A o \in IntValues \ {v} :
                            Lookup(intCellMap', o) = Lookup(intCellMap, o)
         ]_vars
    /\ [](~running =>
          /\ \A id1 \in Identifiers : \A id2 \in Identifiers \ {id1} :
                \A B1 \in EntityTypes, B2 \in EntityTypes :
                    register_ldtk_entity(
                        register_ldtk_entity(entityMap, id1, B1), id2, B2)
                    = register_ldtk_entity(
                        register_ldtk_entity(entityMap, id2, B2), id1, B1)
          /\ \A v1 \in IntValues : \A v2 \in IntValues \ {v1} :
                \A B1 \in IntCellTypes, B2 \in IntCellTypes :
                    register_ldtk_int_cell(
                        register_ldtk_int_cell(intCellMap, v1, B1), v2, B2)
                    = register_ldtk_int_cell(
                        register_ldtk_int_cell(intCellMap, v2, B2), v1, B1))

\* The latest call registered an int value next to another registered value,
\* while the entity registry exists
C10_Witness ==
    /\ lastCall.op = "register_ldtk_int_cell"
    /\ Keys(lastCall.before) \ {lastCall.key} # {}
    /\ Keys(intCellMap) \ {lastCall.key} = Keys(lastCall.before) \ {lastCall.key}
    /\ IsSome(entityMap)

\* Texture-atlas stores the factory may be handed: empty and one atlas
AllAtlasStores == {<<>>, <<[texture |-> "tex0", columns |-> 4, rows |-> 5]>>}

\* The tile reference of the record resolves in the tileset map
Resolves(inst, tm) ==
    IsSome(inst.tile) /\ Unwrap(inst.tile).tileset_uid \in DOMAIN tm

\* What C11 says of one call of SpriteBundle::bundle_entity
SpriteStoreEffect(inst, tm, mats, atlases) ==
    LET built == SpriteBundle_bundle_entity(inst, tm, mats, atlases)
    IN  /\ built.texture_atlases = atlases
        /\ IF Resolves(inst, tm)
           THEN /\ Len(built.materials) = Len(mats) + 1
                /\ SubSeq(built.materials, 1, Len(mats)) = mats
                /\ built.bundle["Material"] = Len(built.materials)
                /\ built.materials[built.bundle["Material"]] =
                      [texture |-> tm[Unwrap(inst.tile).tileset_uid]]
           ELSE built.materials = mats

\* C11: SpriteBundle::bundle_entity leaves the material store unchanged when
\* the record has no tile or its tileset_uid is not in the tileset map; when
\* the tile resolves it adds exactly one material and the returned bundle
\* refers to that new material; the texture-atlas store is never changed.
\* For every record, tileset map and store (the function is applied to all
\* of them while the App is set up), and in every dispatch to the
\* SpriteBundle factory the load has made.
C11_MaterialOnlyOnSuccess ==
    /\ running \/
        \A inst \in EntityInstance, tm \in AllTilesetMaps,
           mats \in AllMaterialStores \cup {materials},
           atlases \in AllAtlasStores \cup {textureAtlases} :
            SpriteStoreEffect(inst, tm, mats, atlases)
    /\ \A e \in SpawnedEntities :
        e.factory = "SpriteBundle" =>
            /\ e.after.texture_atlases = e.before.texture_atlases
            /\ IF Resolves(e.input, tilesetMap)
               THEN /\ Len(e.after.materials) = Len(e.before.materials) + 1
                    /\ SubSeq(e.after.materials, 1, Len(e.before.materials))
                          = e.before.materials
                    /\ e.inserts[1]["Material"] = Len(e.after.materials)
                    /\ e.comps["Material"] = Len(e.after.materials)
               ELSE e.after.materials = e.before.materials

\* The SpriteBundle factory has run once on a resolving tile, adding a
\* material its bundle refers to, and once on a record that does not
\* resolve, leaving the store alone
C11_Witness ==
    /\ \E e \in SpawnedEntities :
        /\ e.factory = "SpriteBundle"
        /\ Resolves(e.input, tilesetMap)
        /\ Len(e.after.materials) = Len(e.before.materials) + 1
        /\ e.comps["Material"] = Len(e.after.materials)
    /\ \E e \in SpawnedEntities :
        /\ e.factory = "SpriteBundle"
        /\ ~Resolves(e.input, tilesetMap)
        /\ e.after.materials = e.before.materials

====
